---- MODULE Spec2Model ----
(***************************************************************************)
(* A model of src/src/emerge.js: immutable updates of JSON-like trees with *)
(* structural sharing.                                                     *)
(*                                                                         *)
(* JavaScript values are records [t, v, s]: t is the type tag, v a number  *)
(* (a heap address for t = "ref"), s a string.  Lists and Dicts live in a  *)
(* heap, a sequence of objects, so that reference identity (===), fresh    *)
(* allocation and in-place writes are all expressible.  Every function of  *)
(* the library takes the heap and returns [h, v, e]: the heap afterwards,  *)
(* the returned value and "ok" or the kind of the error thrown.            *)
(***************************************************************************)
EXTENDS Integers, Sequences, FiniteSets, TLC

VARIABLES heap0, heap, pc, op, prev, key, path, next, fun, args, result, err

vars == <<heap0, heap, pc, op, prev, key, path, next, fun, args, result, err>>

(***************************************************************************)
(* Bounds of the inputs.                                                   *)
(***************************************************************************)
MaxLen == 2
MaxPath == 2
MaxArgs == 3

(***************************************************************************)
(* Values.                                                                 *)
(***************************************************************************)
Undef == [t |-> "undef", v |-> 0, s |-> ""]
Null == [t |-> "null", v |-> 0, s |-> ""]
NaN == [t |-> "nan", v |-> 0, s |-> ""]
Num(n) == [t |-> "num", v |-> n, s |-> ""]
\* Frac(n) is the non-integer number n + 0.5
Frac(n) == [t |-> "frac", v |-> n, s |-> ""]
Str(x) == [t |-> "str", v |-> 0, s |-> x]
Ref(a) == [t |-> "ref", v |-> a, s |-> ""]
Fun(f) == [t |-> "fun", v |-> f, s |-> ""]

\* Heap objects: a List holds items, a Dict holds map, a function from the
\* names of its own properties to their values.
ListObj(items) == [kind |-> "list", items |-> items, map |-> <<>>]
DictObj(map) == [kind |-> "dict", items |-> <<>>, map |-> map]

R(h, v, e) == [h |-> h, v |-> v, e |-> e]
Ok(h, v) == R(h, v, "ok")
Throw(h, e) == R(h, Undef, e)

\* `[]`, `{}`, Array_(n) and NAP.slice.call(list) allocate
Alloc(h, obj) == Ok(Append(h, obj), Ref(Len(h) + 1))

\* out[index] = value, for index <= out.length
SetIndex(h, a, index, value) ==
  [h EXCEPT ![a].items =
     IF index < Len(@) THEN [@ EXCEPT ![index + 1] = value] ELSE Append(@, value)]

\* out[key] = value on a Dict
SetKey(h, a, k, value) ==
  [h EXCEPT ![a].map = [x \in (DOMAIN @) \cup {k} |-> IF x = k THEN value ELSE @[x]]]

\* list.splice(index, deleteCount, ...inserted), in place: a negative index
\* counts from the end, and both are clamped to the List
Splice(h, a, index, deleteCount, inserted) ==
  [h EXCEPT ![a].items =
     LET start == IF index < 0 THEN (IF Len(@) + index < 0 THEN 0 ELSE Len(@) + index)
                  ELSE (IF index > Len(@) THEN Len(@) ELSE index)
         count == IF deleteCount > Len(@) - start THEN Len(@) - start ELSE deleteCount
     IN SubSeq(@, 1, start) \o inserted \o SubSeq(@, start + count + 1, Len(@))]

(***************************************************************************)
(* Utils (src/src/emerge.js 263-368)                                       *)
(***************************************************************************)
isNil(value) == value.t \in {"undef", "null"}

isObject(value) == value.t = "ref"

isFunction(value) == value.t = "fun"

isPrimitive(value) == ~isObject(value) /\ ~isFunction(value)

isNaN(value) == value.t = "nan"

isDict(h, value) == isObject(value) /\ h[value.v].kind = "dict"

isArray(h, value) == isObject(value) /\ h[value.v].kind = "list"

isInteger(value) == value.t = "num"

\* isNatural without the sign test
isNatural_AnyInteger(value) == isInteger(value)

isNatural(value) == isInteger(value) /\ value.v >= 0

\* one === other
StrictEq(one, other) == one = other /\ ~isNaN(one)

is(one, other) == StrictEq(one, other) \/ (isNaN(one) /\ isNaN(other))

\* String(n) for the integers the inputs hold
Digits == <<"0", "1", "2", "3", "4", "5", "6", "7", "8", "9">>

NumStr(n) == IF n \in 0..9 THEN Digits[n + 1] ELSE IF n < 0 THEN "-n" ELSE "nn"

\* the canonical array indices among the property names
IsIndexStr(x) == \E n \in 0..9 : Digits[n + 1] = x

StrIndex(x) == CHOOSE n \in 0..9 : Digits[n + 1] = x

\* String(value).  A List is its elements joined by ",", nil elements empty; the
\* text of a List of two or more elements holds a comma and is no name in use.
RECURSIVE ToStr(_, _)
ToStr(h, value) ==
  CASE value.t = "str" -> value.s
    [] value.t = "num" -> NumStr(value.v)
    [] value.t = "frac" -> "n.5"
    [] value.t = "nan" -> "NaN"
    [] value.t = "undef" -> "undefined"
    [] value.t = "null" -> "null"
    [] value.t = "fun" -> "function"
    [] value.t = "ref" ->
         IF h[value.v].kind = "dict" THEN "[object Object]"
         ELSE LET items == h[value.v].items IN
              IF Len(items) = 0 THEN ""
              ELSE IF Len(items) = 1
              THEN (IF isNil(items[1]) THEN "" ELSE ToStr(h, items[1]))
              ELSE "x,y"

toKey(h, value) == ToStr(h, value)

has(h, dict, k) == k \in DOMAIN h[dict.v].map

\* value[key] for a non-nil value: own properties of Lists and Dicts; numbers,
\* NaN and functions have none of the property names in use
Prop(h, value, k) ==
  IF ~isObject(value) THEN Undef
  ELSE IF h[value.v].kind = "list"
  THEN (IF IsIndexStr(k) /\ StrIndex(k) < Len(h[value.v].items)
        THEN h[value.v].items[StrIndex(k) + 1] ELSE Undef)
  ELSE (IF k \in DOMAIN h[value.v].map THEN h[value.v].map[k] ELSE Undef)

length(h, list) == Len(h[list.v].items)

\* getKeys(dict), as a sequence in a fixed order of the names
RECURSIVE SortedSeq(_)
SortedSeq(S) ==
  IF S = {} THEN <<>>
  ELSE LET m == CHOOSE x \in S : TRUE IN <<m>> \o SortedSeq(S \ {m})

getKeys(h, dict) == SortedSeq(DOMAIN h[dict.v].map)

(***************************************************************************)
(* Boolean (62-79, 309-341)                                                *)
(***************************************************************************)
RECURSIVE equalBy(_, _, _, _)

\* fun(one, other) for the comparators passed around: is and equal
compareBy(h, one, other, by) ==
  IF by = "is" THEN is(one, other) ELSE equalBy(h, other, one, "equal")

everyListPairBy(h, one, other, by) ==
  /\ length(h, one) = length(h, other)
  /\ \A i \in 1..length(h, one) :
       compareBy(h, h[one.v].items[i], h[other.v].items[i], by)

everyDictPairBy(h, one, other, by) ==
  LET keys == DOMAIN h[one.v].map IN
  /\ Cardinality(keys) = Cardinality(DOMAIN h[other.v].map)
  /\ \A k \in keys : has(h, other, k)
  /\ \A k \in keys : compareBy(h, h[one.v].map[k], h[other.v].map[k], by)

equalBy(h, one, other, by) ==
  \/ is(one, other)
  \/ IF isArray(h, one) THEN isArray(h, other) /\ everyListPairBy(h, one, other, by)
     ELSE IF isDict(h, one) THEN isDict(h, other) /\ everyDictPairBy(h, one, other, by)
     ELSE FALSE

equal(h, one, other) == equalBy(h, other, one, "equal")

(***************************************************************************)
(* Get (85-93).  A path argument is [list, items]: list says whether the   *)
(* argument is an Array, items are its elements.                           *)
(***************************************************************************)
get(h, value, k) == IF isNil(value) THEN Undef ELSE Prop(h, value, toKey(h, k))

RECURSIVE getInFrom(_, _, _, _)
getInFrom(h, value, items, i) ==
  IF i > Len(items) THEN value
  ELSE getInFrom(h, get(h, value, items[i]), items, i + 1)

getIn(h, value, p) ==
  IF ~p.list THEN Throw(h, "invalid") ELSE Ok(h, getInFrom(h, value, p.items, 1))

isPath(p) == p.list /\ \A i \in 1..Len(p.items) : isPrimitive(p.items[i])

(***************************************************************************)
(* Utils that coerce or validate (343-368)                                 *)
(***************************************************************************)
alwaysArray(h, value) ==
  IF isNil(value) THEN Alloc(h, ListObj(<<>>))
  ELSE IF ~isArray(h, value) THEN Throw(h, "invalid")
  ELSE Ok(h, value)

toDict(h, value) == IF isDict(h, value) THEN Ok(h, value) ELSE Alloc(h, DictObj(<<>>))

alwaysDict(h, value) ==
  IF isNil(value) THEN Alloc(h, DictObj(<<>>))
  ELSE IF ~isDict(h, value) THEN Throw(h, "invalid")
  ELSE Ok(h, value)

\* validateBounds with index < list.length for index <= list.length
validateBounds_Strict(h, list, index) ==
  IF ~isNatural(index) THEN "invalid"
  ELSE IF ~(index.v < length(h, list)) THEN "bounds"
  ELSE "ok"

validateBounds(h, list, index) ==
  IF ~isNatural(index) THEN "invalid"
  ELSE IF ~(index.v <= length(h, list)) THEN "bounds"
  ELSE "ok"

(***************************************************************************)
(* Sequencing.  `const x = e; rest` is written The({ rest : x \in {e} }):   *)
(* x is bound to the value of e once and rest is evaluated with it.  A call *)
(* that may throw is followed by a test of its outcome: a Throw ends the    *)
(* calling function with the same outcome.                                  *)
(***************************************************************************)
The(S) == CHOOSE x \in S : TRUE

(***************************************************************************)
(* Update (internal) (156-261).  The function arguments of replaceListBy,  *)
(* replaceDictBy and patchDictBy are putAny and mergeOrPut, named by tag.  *)
(***************************************************************************)
RECURSIVE putAny(_, _, _), mergeTwo(_, _, _), replaceListLoop(_, _, _, _, _, _)
RECURSIVE putLoop(_, _, _, _, _, _, _)

\* mergeOrPut that never merges
mergeOrPut_Shallow(h, a, b) == putAny(h, a, b)

mergeOrPut(h, a, b) == IF isDict(h, b) THEN mergeTwo(h, a, b) ELSE putAny(h, a, b)

updateBy(h, a, b, by) == IF by = "putAny" THEN putAny(h, a, b) ELSE mergeOrPut(h, a, b)

\* return equalBy(prev, out, is) ? prev : out
prevOrOut(h, p, out) == Ok(h, IF equalBy(h, p, out, "is") THEN p ELSE out)

\* for (i < next.length) out[i] = fun(prev[i], next[i])
replaceListLoop(h, p, n, by, out, i) ==
  IF i >= length(h, n) THEN h
  ELSE The({ replaceListLoop(SetIndex(r.h, out.v, i, r.v), p, n, by, out, i + 1) :
             r \in {updateBy(h, Prop(h, p, NumStr(i)), h[n.v].items[i + 1], by)} })

replaceListBy(h, p, n, by) ==
  The({ prevOrOut(replaceListLoop(out.h, p, n, by, out.v, 0), p, out.v) :
        out \in {Alloc(h, ListObj([i \in 1..length(h, n) |-> Undef]))} })

\* for (key of keys) { value = fun(prev[key], next[key]); if (value != null) out[key] = value }
putLoop(h, p, n, by, out, keys, i) ==
  IF i > Len(keys) THEN h
  ELSE The({ putLoop(IF isNil(r.v) THEN r.h ELSE SetKey(r.h, out.v, keys[i], r.v),
                     p, n, by, out, keys, i + 1) :
             r \in {updateBy(h, Prop(h, p, keys[i]), Prop(h, n, keys[i]), by)} })

replaceDictBy(h, p, n, by) ==
  The({ prevOrOut(putLoop(out.h, p, n, by, out.v, getKeys(h, n), 1), p, out.v) :
        out \in {Alloc(h, DictObj(<<>>))} })

\* for (key of prevKeys) if (prev[key] != null && !has.call(next, key)) out[key] = prev[key]
RECURSIVE keepLoop(_, _, _, _, _, _)
keepLoop(h, p, n, out, keys, i) ==
  IF i > Len(keys) THEN h
  ELSE keepLoop(IF ~isNil(Prop(h, p, keys[i])) /\ ~has(h, n, keys[i])
                THEN SetKey(h, out.v, keys[i], Prop(h, p, keys[i])) ELSE h,
                p, n, out, keys, i + 1)

\* patchDictBy that returns what it built without comparing it to prev
patchDictBy_NoGate(h, p, n, by) ==
  The({ Ok(putLoop(keepLoop(out.h, p, n, out.v, getKeys(h, p), 1),
                   p, n, by, out.v, getKeys(h, n), 1), out.v) :
        out \in {Alloc(h, DictObj(<<>>))} })

patchDictBy(h, p, n, by) ==
  The({ prevOrOut(putLoop(keepLoop(out.h, p, n, out.v, getKeys(h, p), 1),
                          p, n, by, out.v, getKeys(h, n), 1), p, out.v) :
        out \in {Alloc(h, DictObj(<<>>))} })

\* putAny that replaces without looking into Lists and Dicts
putAny_NoDiff(h, p, n) == IF is(p, n) THEN Ok(h, p) ELSE Ok(h, n)

putAny(h, p, n) ==
  IF is(p, n) THEN Ok(h, p)
  ELSE IF isArray(h, p) THEN (IF isArray(h, n) THEN replaceListBy(h, p, n, "putAny") ELSE Ok(h, n))
  ELSE IF isDict(h, p) THEN (IF isDict(h, n) THEN replaceDictBy(h, p, n, "putAny") ELSE Ok(h, n))
  ELSE Ok(h, n)

\* patchDictBy(toDict(prev), toDict(next), mergeOrPut); dicts = <<toDict(prev), toDict(next)>>
mergeTwo(h, p, n) ==
  IF is(p, n) THEN Ok(h, p)
  ELSE The({ patchDictBy(d2.h, d1.v, d2.v, "mergeOrPut") :
             <<d1, d2>> \in { <<d, toDict(d.h, n)>> : d \in {toDict(h, p)} } })

\* prev = alwaysDict(prev); next = alwaysDict(next)
patchTwoDicts(h, p, n) ==
  The({ IF d1.e # "ok" THEN d1
        ELSE The({ IF d2.e # "ok" THEN d2
                   ELSE IF is(d1.v, d2.v) THEN Ok(d2.h, d1.v)
                   ELSE patchDictBy(d2.h, d1.v, d2.v, "putAny") :
                   d2 \in {alwaysDict(d1.h, n)} }) :
        d1 \in {alwaysDict(h, p)} })

mergeTwoDicts(h, p, n) ==
  The({ IF d1.e # "ok" THEN d1
        ELSE The({ IF d2.e # "ok" THEN d2 ELSE mergeTwo(d2.h, d1.v, d2.v) :
                   d2 \in {alwaysDict(d1.h, n)} }) :
        d1 \in {alwaysDict(h, p)} })

\* the List itself for a copy of it
slice_InPlace(h, list) == Ok(h, list)

\* NAP.slice.call(list): a copy of the List
slice(h, list) == Alloc(h, ListObj(h[list.v].items))

\* out = slice(list); out[index] = value; return out
copyAndSet(h, list, index, value) ==
  The({ Ok(SetIndex(out.h, out.v.v, index.v, value), out.v) : out \in {slice(h, list)} })

\* assocAtIndex that copies without testing is(list[index], value)
assocAtIndex_AlwaysCopy(h, list, index, value) ==
  IF validateBounds(h, list, index) # "ok" THEN Throw(h, validateBounds(h, list, index))
  ELSE copyAndSet(h, list, index, value)

assocAtIndex(h, list, index, value) ==
  IF validateBounds(h, list, index) # "ok" THEN Throw(h, validateBounds(h, list, index))
  ELSE IF index.v < length(h, list) /\ is(h[list.v].items[index.v + 1], value) THEN Ok(h, list)
  ELSE copyAndSet(h, list, index, value)

RECURSIVE copyLoop(_, _, _, _, _, _)

\* the loop of assocAtKey stopping one key early (i < prevKeys.length - 1)
copyLoop_OffByOne(h, dict, k, out, keys, i) ==
  IF i >= Len(keys) THEN h
  ELSE copyLoop(IF keys[i] # k /\ ~isNil(Prop(h, dict, keys[i]))
                THEN SetKey(h, out.v, keys[i], Prop(h, dict, keys[i])) ELSE h,
                dict, k, out, keys, i + 1)

\* for (prevKey of prevKeys) if (prevKey !== key && dict[prevKey] != null) out[prevKey] = dict[prevKey]
copyLoop(h, dict, k, out, keys, i) ==
  IF i > Len(keys) THEN h
  ELSE copyLoop(IF keys[i] # k /\ ~isNil(Prop(h, dict, keys[i]))
                THEN SetKey(h, out.v, keys[i], Prop(h, dict, keys[i])) ELSE h,
                dict, k, out, keys, i + 1)

\* if (value != null) out[key] = value
setUnlessNil(h, out, k, value) == IF ~isNil(value) THEN SetKey(h, out.v, k, value) ELSE h

\* assocAtKey that writes the key whatever the value
assocAtKey_KeepNil(h, dict, rawKey, value) ==
  The({ IF isNil(value) /\ ~has(h, dict, k) THEN Ok(h, dict)
        ELSE IF ~isNil(value) /\ is(Prop(h, dict, k), value) THEN Ok(h, dict)
        ELSE The({ Ok(SetKey(copyLoop(out.h, dict, k, out.v, getKeys(h, dict), 1),
                             out.v.v, k, value), out.v) :
                   out \in {Alloc(h, DictObj(<<>>))} }) :
        k \in {toKey(h, rawKey)} })

assocAtKey(h, dict, rawKey, value) ==
  The({ IF isNil(value) /\ ~has(h, dict, k) THEN Ok(h, dict)
        ELSE IF ~isNil(value) /\ is(Prop(h, dict, k), value) THEN Ok(h, dict)
        ELSE The({ Ok(setUnlessNil(copyLoop(out.h, dict, k, out.v, getKeys(h, dict), 1),
                                   out.v, k, value), out.v) :
                   out \in {Alloc(h, DictObj(<<>>))} }) :
        k \in {toKey(h, rawKey)} })

assoc(h, p, k, n) ==
  IF isArray(h, p) THEN assocAtIndex(h, p, k, n)
  ELSE The({ IF d.e # "ok" THEN d ELSE assocAtKey(d.h, d.v, k, n) :
             d \in {alwaysDict(h, p)} })

RECURSIVE assocInAt(_, _, _, _, _)
assocInAt(h, p, items, n, index) ==
  IF index < Len(items) - 1
  THEN The({ IF inner.e # "ok" THEN inner ELSE assoc(inner.h, p, items[index + 1], inner.v) :
             inner \in {assocInAt(h, get(h, p, items[index + 1]), items, n, index + 1)} })
  ELSE assoc(h, p, items[index + 1], n)

assocIn(h, p, items, n) == IF Len(items) = 0 THEN Ok(h, n) ELSE assocInAt(h, p, items, n, 0)

(***************************************************************************)
(* Update: the exported functions (104-150)                                *)
(***************************************************************************)
put(h, p, k, value) ==
  IF ~isPrimitive(k) THEN Throw(h, "invalid")
  ELSE The({ assoc(r.h, p, k, r.v) : r \in {putAny(h, get(h, p, k), value)} })

putIn(h, p, pth, n) ==
  IF ~isPath(pth) THEN Throw(h, "invalid")
  ELSE The({ assocIn(r.h, p, pth.items, r.v) : r \in {putAny(h, getIn(h, p, pth).v, n)} })

\* The caller's functions: Fun(1) returns its argument, Fun(2) the number 2,
\* Fun(3) undefined.
callFun(f, x) == IF f.v = 1 THEN x ELSE IF f.v = 2 THEN Num(2) ELSE Undef

putBy(h, p, k, f) ==
  IF ~isFunction(f) THEN Throw(h, "invalid")
  ELSE put(h, p, k, callFun(f, get(h, p, k)))

putInBy(h, p, pth, f) ==
  IF ~isFunction(f) THEN Throw(h, "invalid")
  ELSE The({ IF g.e # "ok" THEN g ELSE putIn(h, p, pth, callFun(f, g.v)) :
             g \in {getIn(h, p, pth)} })

\* arguments[i], undefined past the end
Arg(as, i) == IF i <= Len(as) THEN as[i] ELSE Undef

\* NAP.reduce.call(arguments, f), with f named by tag
RECURSIVE reduceFrom(_, _, _, _, _)
reduceFrom(h, acc, as, i, f) ==
  IF i > Len(as) THEN Ok(h, acc)
  ELSE The({ IF r.e # "ok" THEN r ELSE reduceFrom(r.h, r.v, as, i + 1, f) :
             r \in {IF f = "patch" THEN patchTwoDicts(h, acc, as[i])
                    ELSE mergeTwoDicts(h, acc, as[i])} })

patch(h, as) ==
  IF Len(as) > 2 THEN reduceFrom(h, as[1], as, 2, "patch")
  ELSE patchTwoDicts(h, Arg(as, 1), Arg(as, 2))

merge(h, as) ==
  IF Len(as) > 2 THEN reduceFrom(h, as[1], as, 2, "merge")
  ELSE mergeTwoDicts(h, Arg(as, 1), Arg(as, 2))

\* out = slice(list); out.splice(index, deleteCount, ...values); return out
copyAndSplice(h, list, index, deleteCount, values) ==
  The({ Ok(Splice(c.h, c.v.v, index.v, deleteCount, values), c.v) : c \in {slice(h, list)} })

insertAtIndex(h, list, index, value) ==
  The({ IF l.e # "ok" THEN l
        ELSE IF validateBounds(l.h, l.v, index) # "ok"
             THEN Throw(l.h, validateBounds(l.h, l.v, index))
        ELSE copyAndSplice(l.h, l.v, index, 0, <<value>>) :
        l \in {alwaysArray(h, list)} })

removeAtIndex(h, list, index) ==
  IF ~isInteger(index) THEN Throw(h, "invalid")
  ELSE The({ IF l.e # "ok" THEN l
             ELSE IF isNatural(index) /\ index.v < length(l.h, l.v)
             THEN copyAndSplice(l.h, l.v, index, 1, <<>>)
             ELSE l :
             l \in {alwaysArray(h, list)} })

(***************************************************************************)
(* The inputs.  InitHeaps are the trees the caller holds before a call:    *)
(* every heap of two objects whose slots hold undefined, 1 or a reference  *)
(* to the earlier object, and a few larger trees.                          *)
(***************************************************************************)
DictKeys == {"a", "b"}

ListsOver(V) == UNION {{ListObj(f) : f \in [1..n -> V]} : n \in 0..MaxLen}

DictsOver(V) == UNION {{DictObj(f) : f \in [S -> V]} : S \in SUBSET DictKeys}

ObjsOver(V) == ListsOver(V) \cup DictsOver(V)

SlotPrims == {Undef, Num(1)}

SmallHeaps == {<<o1, o2>> : o1 \in ObjsOver(SlotPrims), o2 \in ObjsOver(SlotPrims \cup {Ref(1)})}

D1(k, x) == DictObj([i \in {k} |-> x])

D2(x, y) == DictObj([i \in DictKeys |-> IF i = "a" THEN x ELSE y])

LargeHeaps ==
  { <<D1("a", Num(1)), D1("b", Num(2)), D1("a", Ref(1)), D1("a", Ref(2))>>,
    <<D1("b", Null), D1("a", Ref(1)), D1("a", Ref(2))>>,
    <<D1("a", Num(1)), D1("a", Num(1)), ListObj(<<Ref(1)>>), ListObj(<<Ref(2)>>)>>,
    <<ListObj(<<NaN>>), D2(NaN, Ref(1)), ListObj(<<NaN>>)>>,
    <<D2(Num(1), Num(2)), ListObj(<<Num(1), Null>>), D2(Ref(1), Ref(2))>>,
    <<D1("a", Null), D1("a", Null), ListObj(<<Ref(1)>>), ListObj(<<Ref(2)>>)>>,
    <<D1("b", Num(1)), D2(Ref(1), Num(2)), D2(Ref(2), Ref(1))>> }

InitHeaps == SmallHeaps \cup LargeHeaps

Refs(h) == {Ref(a) : a \in 1..Len(h)}

\* the values held in the slots of the heap's objects
Slots(h) ==
  UNION {{h[a].items[i] : i \in 1..Len(h[a].items)} \cup {h[a].map[k] : k \in DOMAIN h[a].map}
         : a \in 1..Len(h)}

Containers(h) == {Undef} \cup Refs(h)

Values(h) == {Undef, Num(2)} \cup Slots(h) \cup Refs(h)

PutKeys == {Num(i) : i \in 0..MaxLen} \cup {Str(k) : k \in DictKeys} \cup {Fun(1)}

Indexes == {Num(i) : i \in (-1)..(MaxLen + 1)} \cup {Frac(0)}

PathKeys == {Num(0)} \cup {Str(k) : k \in DictKeys}

PathArg(items) == [list |-> TRUE, items |-> items]

NotAList == [list |-> FALSE, items |-> <<>>]

GoodPaths == {PathArg(p) : p \in UNION {[1..n -> PathKeys] : n \in 0..MaxPath}}

BadPaths ==
  {NotAList} \cup {PathArg(<<e>>) : e \in {Ref(1), Ref(2), Fun(1)}}
             \cup {PathArg(<<Str("a"), e>>) : e \in {Ref(1), Fun(1)}}

Paths == GoodPaths \cup BadPaths

Funs == {Fun(1), Fun(2), Num(1)}

ArgLists(h) == UNION {[1..n -> Containers(h)] : n \in 2..MaxArgs}

(***************************************************************************)
(* The state machine: one call of an exported function on the caller's     *)
(* trees.  heap0 is the heap before the call, heap the heap after it.      *)
(***************************************************************************)
NoPath == PathArg(<<>>)

Init ==
  /\ heap0 \in InitHeaps
  /\ heap = heap0
  /\ pc = "ready"
  /\ op = "none"
  /\ prev = Undef /\ key = Undef /\ next = Undef /\ fun = Undef
  /\ path = NoPath
  /\ args = <<>>
  /\ result = Undef
  /\ err = "ok"

Call(name, r) ==
  /\ pc' = IF pc = "ready" THEN "done" ELSE "again"
  /\ op' = name
  /\ heap0' = heap
  /\ heap' = r.h
  /\ result' = r.v
  /\ err' = r.e

Get ==
  /\ pc = "ready"
  /\ \E p \in Containers(heap), k \in PutKeys :
    /\ Call("get", Ok(heap, get(heap, p, k)))
    /\ prev' = p /\ key' = k
    /\ UNCHANGED <<path, next, fun, args>>

GetIn ==
  /\ pc = "ready"
  /\ \E p \in Containers(heap), pth \in Paths :
    /\ Call("getIn", getIn(heap, p, pth))
    /\ prev' = p /\ path' = pth
    /\ UNCHANGED <<key, next, fun, args>>

Put ==
  /\ pc = "ready"
  /\ \E p \in Containers(heap), k \in PutKeys, n \in Values(heap) :
    /\ Call("put", put(heap, p, k, n))
    /\ prev' = p /\ key' = k /\ next' = n
    /\ UNCHANGED <<path, fun, args>>

PutIn ==
  /\ pc = "ready"
  /\ \E p \in Containers(heap), pth \in Paths, n \in Values(heap) :
    /\ Call("putIn", putIn(heap, p, pth, n))
    /\ prev' = p /\ path' = pth /\ next' = n
    /\ UNCHANGED <<key, fun, args>>

PutBy ==
  /\ pc = "ready"
  /\ \E p \in Containers(heap), k \in PutKeys, f \in Funs :
    /\ Call("putBy", putBy(heap, p, k, f))
    /\ prev' = p /\ key' = k /\ fun' = f
    /\ UNCHANGED <<path, next, args>>

PutInBy ==
  /\ pc = "ready"
  /\ \E p \in Containers(heap), pth \in Paths, f \in Funs :
    /\ Call("putInBy", putInBy(heap, p, pth, f))
    /\ prev' = p /\ path' = pth /\ fun' = f
    /\ UNCHANGED <<key, next, args>>

Patch ==
  /\ pc = "ready"
  /\ \E as \in ArgLists(heap) :
    /\ Call("patch", patch(heap, as))
    /\ args' = as
    /\ UNCHANGED <<prev, key, path, next, fun>>

Merge ==
  /\ pc = "ready"
  /\ \E as \in ArgLists(heap) :
    /\ Call("merge", merge(heap, as))
    /\ args' = as
    /\ UNCHANGED <<prev, key, path, next, fun>>

InsertAtIndex ==
  /\ pc = "ready"
  /\ \E l \in Containers(heap), i \in Indexes, n \in Values(heap) :
    /\ Call("insertAtIndex", insertAtIndex(heap, l, i, n))
    /\ prev' = l /\ key' = i /\ next' = n
    /\ UNCHANGED <<path, fun, args>>

RemoveAtIndex ==
  /\ pc = "ready"
  /\ \E l \in Containers(heap), i \in Indexes :
    /\ Call("removeAtIndex", removeAtIndex(heap, l, i))
    /\ prev' = l /\ key' = i
    /\ UNCHANGED <<path, next, fun, args>>

\* removeAtIndex applied to the List a removeAtIndex returned
RemoveAgain ==
  /\ pc = "done" /\ op = "removeAtIndex" /\ err = "ok"
  /\ \E i \in Indexes :
    /\ Call("removeAtIndex", removeAtIndex(heap, result, i))
    /\ prev' = result /\ key' = i
    /\ UNCHANGED <<path, next, fun, args>>

Next ==
  \/ Get \/ GetIn \/ Put \/ PutIn \/ PutBy \/ PutInBy
  \/ Patch \/ Merge \/ InsertAtIndex \/ RemoveAtIndex \/ RemoveAgain

Spec == Init /\ [][Next]_vars

(***************************************************************************)
(* Vocabulary of the properties.                                           *)
(***************************************************************************)
Returned == pc \in {"done", "again"} /\ err = "ok"

Items(h, v) == h[v.v].items

Map(h, v) == h[v.v].map

Fresh(v) == isObject(v) /\ v.v > Len(heap0)

\* the property names a List or Dict holds
OwnKeys(h, v) ==
  IF isArray(h, v) THEN {NumStr(i - 1) : i \in 1..Len(Items(h, v))} ELSE DOMAIN Map(h, v)

\* the addresses reachable from a value
RECURSIVE Reach(_, _)
Reach(h, v) ==
  IF ~isObject(v) THEN {}
  ELSE {v.v} \cup UNION {Reach(h, Prop(h, v, k)) : k \in OwnKeys(h, v)}

NoNilEntry(h, a) == h[a].kind = "dict" => \A k \in DOMAIN h[a].map : ~isNil(h[a].map[k])

\* no Dict at any depth of v holds a nullish entry
NilFree(h, v) == \A a \in Reach(h, v) : NoNilEntry(h, a)

\* the value the first i keys of the path lead to
Prefix(h, v, i) == getInFrom(h, v, SubSeq(path.items, 1, i), 1)

PathLen == Len(path.items)

\* put(prev, key, next) was called with next = get(prev, key)
PutOfGet ==
  /\ Returned /\ isObject(prev)
  /\ \/ op = "put" /\ is(next, get(heap0, prev, key))
     \/ op = "putBy" /\ fun = Fun(1)

\* C1 as stated: put(v, k, get(v, k)) returns v itself whenever it returns,
\* also at a List index equal to the length and at a Dict key holding nil.
C1_PutOfGetReturnsSame == PutOfGet => result = prev

\* the key is a List index below the length, or a Dict key that is absent or
\* holds a non-nil value
KeyHoldsValue(h, v, k) ==
  IF isArray(h, v) THEN k.v < length(h, v)
  ELSE ~(has(h, v, toKey(h, k)) /\ isNil(Prop(h, v, toKey(h, k))))

\* C1 amended: put(v, k, get(v, k)) returns v itself when k is a List index
\* below the length or a Dict key that is absent or holds a non-nil value.
C1_PutOfGetInRangeReturnsSame ==
  (PutOfGet /\ KeyHoldsValue(heap0, prev, key)) => (result = prev /\ heap = heap0)

C1_Witness ==
  /\ PutOfGet /\ op = "put" /\ isDict(heap0, prev) /\ isObject(next)
  /\ KeyHoldsValue(heap0, prev, key) /\ result = prev

\* putIn(prev, path, next) returned, next structurally equal to getIn(prev, path)
PutInOfEqual ==
  /\ Returned /\ op = "putIn" /\ (isNil(prev) \/ isObject(prev))
  /\ equal(heap0, next, Prefix(heap0, prev, PathLen))

\* C2 as stated: putIn(v, p, x) with x equal to getIn(v, p) returns v itself,
\* on every path on which it returns.
C2_PutInOfEqualReturnsSame == PutInOfEqual => is(result, prev)

\* every proper prefix of the path leads to a List or Dict, and the last key
\* is KeyHoldsValue in the container it is applied to
PathResolves ==
  /\ \A i \in 0..(PathLen - 1) : isObject(Prefix(heap0, prev, i))
  /\ PathLen > 0 =>
       KeyHoldsValue(heap0, Prefix(heap0, prev, PathLen - 1), path.items[PathLen])

\* C2 amended: putIn(v, p, x) with x equal to getIn(v, p) returns v itself when
\* no Dict in x or in getIn(v, p) holds a nullish entry, every proper prefix of
\* p leads to a List or Dict, and the last key is a List index below the
\* length or a Dict key that is absent or holds a non-nil value.
C2_PutInOfEqualOnResolvedPath ==
  (/\ PutInOfEqual
   /\ NilFree(heap0, next) /\ NilFree(heap0, Prefix(heap0, prev, PathLen))
   /\ PathResolves) => is(result, prev)

C2_Witness ==
  /\ PutInOfEqual /\ PathResolves /\ PathLen > 0
  /\ isObject(next) /\ NilFree(heap0, next)
  /\ next # Prefix(heap0, prev, PathLen)
  /\ result = prev

\* C3: after put, putIn, patch or merge, no Dict of the result that was built
\* by the call holds a nullish value, and put(d, k, nil) on a Dict d returns a
\* Dict without the key k.
C3_NilOmission ==
  (Returned /\ op \in {"put", "putIn", "putBy", "putInBy", "patch", "merge"}) =>
    /\ \A a \in Reach(heap, result) : a > Len(heap0) => NoNilEntry(heap, a)
    /\ (op = "put" /\ isDict(heap0, prev) /\ isNil(next)) =>
         (isDict(heap, result) /\ ~has(heap, result, toKey(heap0, key)))

C3_Witness ==
  /\ Returned /\ op = "put" /\ isDict(heap0, prev) /\ isNil(next)
  /\ has(heap0, prev, toKey(heap0, key)) /\ ~isNil(get(heap0, prev, key))
  /\ Fresh(result) /\ Map(heap, result) # <<>>

\* patch(v, e) was called with v a Dict and e an empty Dict
PatchWithEmpty ==
  /\ Returned /\ op = "patch" /\ Len(args) = 2
  /\ isDict(heap0, args[1]) /\ isDict(heap0, args[2])
  /\ DOMAIN Map(heap0, args[2]) = {}

MergeWithSelf ==
  /\ Returned /\ op = "merge" /\ Len(args) = 2
  /\ isDict(heap0, args[1]) /\ args[2] = args[1]

\* C4 as stated: patch(v, {}) and merge(v, v) return v itself for every Dict v,
\* also one that holds nullish entries.
C4_CombineIdempotent ==
  /\ PatchWithEmpty => result = args[1]
  /\ MergeWithSelf => result = args[1]

\* C4 amended: patch(v, {}) returns v itself for every Dict v without nullish
\* entries, and merge(v, v) returns v itself for every Dict v.
C4_CombineIdempotentNoNil ==
  /\ (PatchWithEmpty /\ NoNilEntry(heap0, args[1].v)) => result = args[1]
  /\ MergeWithSelf => result = args[1]

C4_Witness ==
  /\ PatchWithEmpty /\ NoNilEntry(heap0, args[1].v)
  /\ args[1] # args[2] /\ DOMAIN Map(heap0, args[1]) # {}
  /\ result = args[1]

\* patch or merge was called on two Dicts
CombineTwo(name) ==
  /\ Returned /\ op = name /\ Len(args) = 2
  /\ isDict(heap0, args[1]) /\ isDict(heap0, args[2])

\* r is the patch of the Dicts p and n: the keys of both, next's values
\* (structurally), prev's values by reference where next has none
PatchOf(h, r, p, n) ==
  /\ isDict(h, r)
  /\ DOMAIN Map(h, r) = DOMAIN Map(h, p) \cup DOMAIN Map(h, n)
  /\ \A k \in DOMAIN Map(h, n) : equal(h, Prop(h, r, k), Map(h, n)[k])
  /\ \A k \in DOMAIN Map(h, p) \ DOMAIN Map(h, n) : Prop(h, r, k) = Map(h, p)[k]

\* r is the merge of p (an empty Dict when it is no Dict) and the Dict n
RECURSIVE MergeOf(_, _, _, _)
MergeOf(h, r, p, n) ==
  LET pk == IF isDict(h, p) THEN DOMAIN Map(h, p) ELSE {}
      nk == DOMAIN Map(h, n)
  IN /\ isDict(h, r)
     /\ DOMAIN Map(h, r) = pk \cup nk
     /\ \A k \in pk \ nk : Prop(h, r, k) = Map(h, p)[k]
     /\ \A k \in nk :
          IF isDict(h, Map(h, n)[k])
          THEN MergeOf(h, Prop(h, r, k), Prop(h, p, k), Map(h, n)[k])
          ELSE equal(h, Prop(h, r, k), Map(h, n)[k])

\* C5 as stated: for Dicts prev and next whose own entries are all non-nil,
\* patch(prev, next) is their shallow patch and merge(prev, next) their
\* recursive merge.
C5_PatchShallowMergeDeep ==
  /\ (/\ CombineTwo("patch")
      /\ NoNilEntry(heap0, args[1].v) /\ NoNilEntry(heap0, args[2].v))
       => PatchOf(heap, result, args[1], args[2])
  /\ (/\ CombineTwo("merge")
      /\ NoNilEntry(heap0, args[1].v) /\ NoNilEntry(heap0, args[2].v))
       => MergeOf(heap, result, args[1], args[2])

\* C5 amended: for Dicts prev and next in which no Dict at any depth holds a
\* nullish entry, patch(prev, next) is their shallow patch and
\* merge(prev, next) their recursive merge.
C5_PatchShallowMergeDeepNilFree ==
  /\ (CombineTwo("patch") /\ NilFree(heap0, args[1]) /\ NilFree(heap0, args[2]))
       => PatchOf(heap, result, args[1], args[2])
  /\ (CombineTwo("merge") /\ NilFree(heap0, args[1]) /\ NilFree(heap0, args[2]))
       => MergeOf(heap, result, args[1], args[2])

\* a merge that kept a key of prev's nested Dict beside a key of next's
C5_Witness ==
  /\ CombineTwo("merge") /\ NilFree(heap0, args[1]) /\ NilFree(heap0, args[2])
  /\ \E k \in DOMAIN Map(heap0, args[2]) :
       /\ isDict(heap0, Prop(heap0, args[1], k)) /\ isDict(heap0, Prop(heap0, args[2], k))
       /\ Fresh(Prop(heap, result, k))
       /\ DOMAIN Map(heap0, Prop(heap0, args[1], k)) \ DOMAIN Map(heap0, Prop(heap0, args[2], k)) # {}
       /\ DOMAIN Map(heap0, Prop(heap0, args[2], k)) \ DOMAIN Map(heap0, Prop(heap0, args[1], k)) # {}

\* the siblings of the path's key at level i keep their references
SiblingsShared(i) ==
  LET c0 == Prefix(heap0, prev, i)
      c1 == Prefix(heap, result, i)
  IN isObject(c0) =>
       \A k \in OwnKeys(heap0, c0) \ {toKey(heap0, path.items[i + 1])} :
         ~isNil(Prop(heap0, c0, k)) => Prop(heap, c1, k) = Prop(heap0, c0, k)

\* C6: when putIn(v, p, x) with non-empty p returns a result other than v, then
\* at every level along p every other key of the original container that
\* holds a non-nil value maps to the identical value in the new container.
C6_PathSpineSharing ==
  (Returned /\ op = "putIn" /\ PathLen > 0 /\ result # prev) =>
    \A i \in 0..(PathLen - 1) : SiblingsShared(i)

C6_Witness ==
  /\ Returned /\ op = "putIn" /\ PathLen = 2 /\ result # prev
  /\ isDict(heap0, prev) /\ isDict(heap0, Prefix(heap0, prev, 1))
  /\ \E k \in OwnKeys(heap0, prev) \ {toKey(heap0, path.items[1])} :
       isObject(Prop(heap0, prev, k)) /\ Prop(heap, result, k) = Prop(heap0, prev, k)
  /\ OwnKeys(heap0, Prefix(heap0, prev, 1)) \ {toKey(heap0, path.items[2])} # {}

\* C7: getIn fails with an invalid-argument error whenever the path is not a
\* List of primitives, and never otherwise.
C7_GetInRejectsBadPath ==
  (pc = "done" /\ op = "getIn") => (err = "invalid" <=> ~isPath(path))

\* the List argument of insertAtIndex and removeAtIndex, nil taken as empty
ListArg == IF isNil(prev) THEN <<>> ELSE Items(heap0, prev)

\* C8: insertAtIndex(list, i, x) fails exactly when i is no natural number in
\* [0, n]; otherwise it returns a new List of length n + 1 with x at i, the
\* elements before i in place and the elements from i on shifted right.
C8_InsertAtIndex ==
  (pc = "done" /\ op = "insertAtIndex" /\ (isNil(prev) \/ isArray(heap0, prev))) =>
    LET n == Len(ListArg)
        inRange == isNatural(key) /\ key.v <= n
    IN /\ err # "ok" <=> ~inRange
       /\ err = "ok" =>
            /\ isArray(heap, result) /\ result # prev /\ Fresh(result)
            /\ Len(Items(heap, result)) = n + 1
            /\ Items(heap, result)[key.v + 1] = next
            /\ \A j \in 1..key.v : Items(heap, result)[j] = ListArg[j]
            /\ \A j \in (key.v + 1)..n : Items(heap, result)[j + 1] = ListArg[j]

C8_Witness ==
  /\ pc = "done" /\ op = "insertAtIndex" /\ err = "ok" /\ isArray(heap0, prev)
  /\ key.v = 1 /\ Len(ListArg) = 2 /\ isObject(ListArg[2])

\* C9: removeAtIndex(list, i) on a List fails only when i is no integer; for
\* 0 <= i < n it returns a new List without element i, order kept; for any
\* other integer it returns list itself, so that removing again at an
\* out-of-range index from its own result changes nothing.
C9_RemoveAtIndex ==
  (pc \in {"done", "again"} /\ op = "removeAtIndex" /\ isArray(heap0, prev)) =>
    LET n == Len(ListArg)
    IN /\ err # "ok" <=> ~isInteger(key)
       /\ (err = "ok" /\ key.v >= 0 /\ key.v < n) =>
            /\ isArray(heap, result) /\ Fresh(result)
            /\ Len(Items(heap, result)) = n - 1
            /\ \A j \in 1..key.v : Items(heap, result)[j] = ListArg[j]
            /\ \A j \in (key.v + 2)..n : Items(heap, result)[j - 1] = ListArg[j]
       /\ (err = "ok" /\ ~(key.v >= 0 /\ key.v < n)) =>
            (result = prev /\ heap = heap0)

C9_Witness ==
  /\ pc = "again" /\ err = "ok" /\ isArray(heap0, prev)
  /\ prev.v = Len(heap0) /\ Len(ListArg) = 1
  /\ key.v >= Len(ListArg) /\ result = prev

\* C10: after any call, returned or failed, every List and Dict that existed
\* before the call holds what it held; the call only added new objects.
C10_NoInputMutated ==
  pc \in {"done", "again"} =>
    /\ Len(heap) >= Len(heap0)
    /\ \A a \in 1..Len(heap0) : heap[a] = heap0[a]

C10_Witness ==
  /\ pc = "done" /\ op = "insertAtIndex" /\ err = "ok"
  /\ Len(ListArg) = 2 /\ key.v = 0 /\ isArray(heap0, prev)
  /\ Items(heap, result) # Items(heap, prev)

====
